---------------------------- MODULE Spec2Model ----------------------------
(***************************************************************************)
(* Model of storypilot_core.py: the image-to-scene mapper                  *)
(* (map_images_by_prompt_number) and the video assembly pipeline           *)
(* (create_video_from_prompts).                                            *)
(*                                                                         *)
(* Text is a sequence of one-character strings.  A duration is an exact    *)
(* rational [n |-> numerator, d |-> denominator] with d > 0; the source    *)
(* computes in binary floating point, whose rounding is not modelled.      *)
(* The external tool (ffmpeg/ffprobe), file writes and file deletions are  *)
(* the environment: each either succeeds or fails, chosen freely.          *)
(***************************************************************************)
EXTENDS Integers, Sequences, FiniteSets

(***************************************************************************)
(* Bounds of the model.                                                    *)
(***************************************************************************)
MaxFiles == 3
MaxPerScene == 2
MaxCaptions == 1

VARIABLES
    \* map_images_by_prompt_number
    image_files,     \* the argument: list of image paths
    mpc,             \* position in the mapper: "idle", "loop", "done"
    midx,            \* index of the next path the for loop visits
    prompt_map,      \* the defaultdict, as entries in insertion order
    sorted_map,      \* the returned dict, as entries in iteration order
    skipped,         \* the paths the loop warned about, in order
    \* create_video_from_prompts
    prompt_image_map,          \* argument: scene ordinal -> list of images
    target_duration_minutes,   \* argument: <<>> for None, <<r>> for a number
    audio_duration,            \* what get_audio_duration would return
    scene_texts_for_caption,   \* argument: list of caption texts
    pc,                        \* position in create_video_from_prompts
    total_duration_sec,
    duration_per_prompt,
    i,                         \* enumerate index of the scene loop
    j,                         \* enumerate index of the image loop
    duration_per_image,
    current_scene_text,
    video_segments,
    segment_file_paths,
    calls,                     \* log of external invocations, in order
    files,                     \* artifacts a successful step has produced
                               \* and no deletion has removed
    manifest,                  \* content of the segment list file
    cleanup_attempted,         \* os.remove calls made by cleanup, in order
    error,                     \* the exception that left the function
    result                     \* the returned path, <<>> while none

mvars == <<image_files, mpc, midx, prompt_map, sorted_map, skipped>>

jvars == <<prompt_image_map, target_duration_minutes, audio_duration,
           scene_texts_for_caption, pc, total_duration_sec,
           duration_per_prompt, i, j, duration_per_image,
           current_scene_text, video_segments, segment_file_paths, calls,
           files, manifest, cleanup_attempted, error, result>>

vars == <<mvars, jvars>>

(***************************************************************************)
(* Sequences and sets.                                                     *)
(***************************************************************************)
Range(s) == {s[x] : x \in 1..Len(s)}

SeqsUpTo(S, n) == UNION {[1..m -> S] : m \in 0..n}

SetMin(S) == CHOOSE x \in S : \A y \in S : x <= y

RECURSIVE SortedKeys(_)
SortedKeys(S) ==
    IF S = {} THEN <<>>
    ELSE LET m == SetMin(S) IN <<m>> \o SortedKeys(S \ {m})

(***************************************************************************)
(* Rationals.                                                              *)
(***************************************************************************)
Rat(a, b) == [n |-> a, d |-> b]

RatLess(a, b) == a.n * b.d < b.n * a.d

RatEq(a, b) == a.n * b.d = b.n * a.d

RatIsZero(a) == a.n = 0

RatDiv(a, k) == Rat(a.n, a.d * k)

RatTimes(a, k) == Rat(a.n * k, a.d)

\* Python's max(a, b): b only when b > a
RatMax(a, b) == IF RatLess(a, b) THEN b ELSE a

(***************************************************************************)
(* map_images_by_prompt_number                                             *)
(***************************************************************************)
Digits == {"0", "1", "2", "3", "4", "5", "6", "7", "8", "9"}

DigitValue(c) ==
    CASE c = "0" -> 0 [] c = "1" -> 1 [] c = "2" -> 2 [] c = "3" -> 3
      [] c = "4" -> 4 [] c = "5" -> 5 [] c = "6" -> 6 [] c = "7" -> 7
      [] c = "8" -> 8 [] c = "9" -> 9

\* os.path.basename: what follows the last separator
Basename(path) ==
    LET seps == {x \in 1..Len(path) : path[x] = "/"}
        last == IF seps = {} THEN 0
                ELSE CHOOSE x \in seps : \A y \in seps : y <= x
    IN SubSeq(path, last + 1, Len(path))

\* re.compile(r"^(\d+)").match: length of the leading digit run, 0 = no match
RECURSIVE DigitRun(_, _)
DigitRun(name, from) ==
    IF from <= Len(name) /\ name[from] \in Digits
    THEN 1 + DigitRun(name, from + 1)
    ELSE 0

\* int(match.group(1))
RECURSIVE IntOf(_)
IntOf(ds) ==
    IF ds = <<>> THEN 0
    ELSE 10 * IntOf(SubSeq(ds, 1, Len(ds) - 1)) + DigitValue(ds[Len(ds)])

FileNumber(path) ==
    LET name == Basename(path) IN IntOf(SubSeq(name, 1, DigitRun(name, 1)))

HasMatch(path) == DigitRun(Basename(path), 1) > 0

CeilHalfFloored(n) == n \div 2

\* math.ceil(file_number / 2)
CeilHalf(n) == (n + 1) \div 2

\* prompt_map[prompt_number].append(img_path) on a defaultdict(list)
DictAppend(dict, key, item) ==
    IF \E x \in 1..Len(dict) : dict[x].key = key
    THEN [x \in 1..Len(dict) |->
             IF dict[x].key = key
             THEN [key |-> key, val |-> Append(dict[x].val, item)]
             ELSE dict[x]]
    ELSE Append(dict, [key |-> key, val |-> <<item>>])

\* sorted(prompt_map.items())
RECURSIVE InsertEntry(_, _)
InsertEntry(e, sorted) ==
    IF sorted = <<>> THEN <<e>>
    ELSE IF e.key < sorted[1].key THEN <<e>> \o sorted
    ELSE <<sorted[1]>> \o InsertEntry(e, Tail(sorted))

RECURSIVE SortItems(_)
SortItems(dict) ==
    IF dict = <<>> THEN <<>>
    ELSE InsertEntry(dict[Len(dict)], SortItems(SubSeq(dict, 1, Len(dict) - 1)))

Paths ==
    { <<"0">>, <<"1">>, <<"2">>, <<"3">>, <<"1", "0">>, <<"x", "1">>,
      <<"d", "/", "4">>, <<"7", "/", "x">> }

\* one iteration of the for loop of the mapper
MapperStep ==
    /\ mpc = "loop"
    /\ midx <= Len(image_files)
    /\ LET img_path == image_files[midx] IN
         IF HasMatch(img_path)
         THEN /\ prompt_map' = DictAppend(prompt_map,
                                          CeilHalf(FileNumber(img_path)),
                                          img_path)
              /\ UNCHANGED skipped
         ELSE /\ skipped' = Append(skipped, img_path)
              /\ UNCHANGED prompt_map
    /\ midx' = midx + 1
    /\ UNCHANGED <<image_files, mpc, sorted_map>>
    /\ UNCHANGED jvars

\* the loop is over: sort and return
MapperReturn ==
    /\ mpc = "loop"
    /\ midx > Len(image_files)
    /\ sorted_map' = SortItems(prompt_map)
    /\ mpc' = "done"
    /\ UNCHANGED <<image_files, midx, prompt_map, skipped>>
    /\ UNCHANGED jvars

(***************************************************************************)
(* create_video_from_prompts                                               *)
(***************************************************************************)
ManifestFile == [kind |-> "segments", i |-> -1, j |-> -1]

IntermediateFile == [kind |-> "video_no_audio", i |-> -1, j |-> -1]

FinalFile == [kind |-> "final_video", i |-> -1, j |-> -1]

\* os.path.join(OUTPUT_DIR, f"{job_id}_seg_{i}_{j}.mp4")
SegmentPath(a, b) == [kind |-> "seg", i |-> a, j |-> b]

\* os.path.abspath(segment_path).replace(os.sep, '/')
AbsPath(p) == [abs |-> p]

\* f"file '{path}'\n"
ManifestLine(p) == [file |-> p]

NoRat == Rat(0, 1)

Call(op, a, b, ok, effect, dur, text, img) ==
    [op |-> op, i |-> a, j |-> b, ok |-> ok, effect |-> effect,
     duration |-> dur, text |-> text, image |-> img]

StageCall(op, ok) == Call(op, -1, -1, ok, -1, NoRat, <<>>, <<>>)

\* the duration precedence rule at the head of the function
TotalDuration(target, audio) ==
    IF target # <<>> /\ ~RatIsZero(target[1])
    THEN RatTimes(target[1], 60)
    ELSE audio

NumPrompts(map) == Cardinality(DOMAIN map)

Keys == SortedKeys(DOMAIN prompt_image_map)

DurationPerImageNoFloor(dpp, k) == RatDiv(dpp, k)

\* max(0.5, duration_per_prompt / num_images_in_prompt)
DurationPerImage(dpp, k) == RatMax(Rat(1, 2), RatDiv(dpp, k))

\* the guard of the caption lookup
CaptionGuard(prompt_num, texts) == (prompt_num - 1) < Len(texts)

\* texts[idx] of a Python list: a negative idx counts from the end
IndexInRange(idx, texts) == -Len(texts) <= idx /\ idx < Len(texts)

PyIndex(texts, idx) ==
    IF idx >= 0 THEN texts[idx + 1] ELSE texts[Len(texts) + idx + 1]

EffectCycle(a, n, b) == (a * n + b) % 3

AppendAlways(list, item, ok) == Append(list, item)

\* the appends that follow subprocess.run inside the try
AppendOnSuccess(list, item, ok) == IF ok THEN Append(list, item) ELSE list

StageExitUnchecked(ok, next) == next

\* subprocess.run(..., check=True) outside any try
StageExit(ok, next) == IF ok THEN next ELSE "raised"

CleanupTargetsSegmentsFirst(segments) ==
    segments \o <<ManifestFile, IntermediateFile>>

\* the os.remove calls of the cleanup, in order
CleanupTargets(segments) == <<ManifestFile, IntermediateFile>> \o segments

CleanupExitPropagating(failed) == IF failed THEN "raised" ELSE "returned"

\* except Exception: print(...), then return final_output_path
CleanupExit(failed) == "returned"

\* leaving the body of the scene loop for scene index a
AfterScene(a) == IF a + 1 < Len(Keys) THEN "scene" ELSE "manifest"

Raise(exc) ==
    /\ pc' = "raised"
    /\ error' = exc

inputs == <<prompt_image_map, target_duration_minutes, audio_duration,
            scene_texts_for_caption>>

\* lines 137-151: duration source, the two precondition checks
CheckPreconditions ==
    /\ pc = "start"
    /\ LET total == TotalDuration(target_duration_minutes, audio_duration) IN
         /\ total_duration_sec' = total
         /\ IF RatIsZero(total)
            THEN /\ Raise("AudioDurationZero")
                 /\ UNCHANGED duration_per_prompt
            ELSE IF NumPrompts(prompt_image_map) = 0
            THEN /\ Raise("NoPrompts")
                 /\ UNCHANGED duration_per_prompt
            ELSE /\ duration_per_prompt' =
                        RatDiv(total, NumPrompts(prompt_image_map))
                 /\ pc' = "scene"
                 /\ UNCHANGED error
    /\ UNCHANGED <<inputs, i, j, duration_per_image, current_scene_text,
                   video_segments, segment_file_paths, calls, files,
                   manifest, cleanup_attempted, result>>
    /\ UNCHANGED mvars

\* lines 158-162: a scene without images is passed over
SkipScene ==
    /\ pc = "scene"
    /\ prompt_image_map[Keys[i + 1]] = <<>>
    /\ i' = i + 1
    /\ pc' = AfterScene(i)
    /\ UNCHANGED <<inputs, total_duration_sec, duration_per_prompt, j,
                   duration_per_image, current_scene_text, video_segments,
                   segment_file_paths, calls, files, manifest,
                   cleanup_attempted, error, result>>
    /\ UNCHANGED mvars

\* lines 158-172: per-image duration and caption of a scene with images
BeginScene ==
    /\ pc = "scene"
    /\ LET prompt_num == Keys[i + 1]
           images == prompt_image_map[prompt_num]
       IN
         /\ images # <<>>
         /\ duration_per_image' =
                DurationPerImage(duration_per_prompt, Len(images))
         /\ IF CaptionGuard(prompt_num, scene_texts_for_caption)
            THEN IF IndexInRange(prompt_num - 1, scene_texts_for_caption)
                 THEN /\ current_scene_text' =
                            PyIndex(scene_texts_for_caption, prompt_num - 1)
                      /\ pc' = "render"
                      /\ UNCHANGED error
                 ELSE /\ Raise("IndexError")
                      /\ UNCHANGED current_scene_text
            ELSE /\ current_scene_text' = <<>>
                 /\ pc' = "render"
                 /\ UNCHANGED error
    /\ j' = 0
    /\ UNCHANGED <<inputs, total_duration_sec, duration_per_prompt, i,
                   video_segments, segment_file_paths, calls, files,
                   manifest, cleanup_attempted, result>>
    /\ UNCHANGED mvars

\* lines 174-228: one image of the scene is rendered, or fails to
RenderSegment ==
    /\ pc = "render"
    /\ \E ok \in BOOLEAN :
         LET prompt_num == Keys[i + 1]
             images == prompt_image_map[prompt_num]
             segment_path == SegmentPath(i, j)
         IN
           /\ calls' = Append(calls,
                  Call("render", i, j, ok, EffectCycle(i, Len(images), j),
                       duration_per_image, current_scene_text,
                       images[j + 1]))
           /\ video_segments' =
                  AppendOnSuccess(video_segments, segment_path, ok)
           /\ segment_file_paths' =
                  AppendOnSuccess(segment_file_paths, AbsPath(segment_path),
                                  ok)
           /\ files' = IF ok THEN files \cup {segment_path} ELSE files
           /\ IF j + 1 < Len(images)
              THEN /\ j' = j + 1
                   /\ UNCHANGED <<i, pc>>
              ELSE /\ i' = i + 1
                   /\ pc' = AfterScene(i)
                   /\ UNCHANGED j
    /\ UNCHANGED <<inputs, total_duration_sec, duration_per_prompt,
                   duration_per_image, current_scene_text, manifest,
                   cleanup_attempted, error, result>>
    /\ UNCHANGED mvars

\* lines 230-235: the segment list file is written
WriteManifest ==
    /\ pc = "manifest"
    /\ \E ok \in BOOLEAN :
         /\ calls' = Append(calls, StageCall("manifest", ok))
         /\ IF ok
            THEN /\ manifest' =
                       [written |-> TRUE,
                        lines |-> [x \in 1..Len(segment_file_paths) |->
                                      ManifestLine(segment_file_paths[x])]]
                 /\ files' = files \cup {ManifestFile}
                 /\ pc' = "concat"
                 /\ UNCHANGED error
            ELSE /\ Raise("SegmentListWriteError")
                 /\ UNCHANGED <<manifest, files>>
    /\ UNCHANGED <<inputs, total_duration_sec, duration_per_prompt, i, j,
                   duration_per_image, current_scene_text, video_segments,
                   segment_file_paths, cleanup_attempted, result>>
    /\ UNCHANGED mvars

\* lines 237-246: the concatenation call
Concatenate ==
    /\ pc = "concat"
    /\ \E ok \in BOOLEAN :
         /\ calls' = Append(calls, StageCall("concat", ok))
         /\ files' = IF ok THEN files \cup {IntermediateFile} ELSE files
         /\ pc' = StageExit(ok, "mux")
         /\ error' = IF ok THEN error ELSE "CalledProcessError"
    /\ UNCHANGED <<inputs, total_duration_sec, duration_per_prompt, i, j,
                   duration_per_image, current_scene_text, video_segments,
                   segment_file_paths, manifest, cleanup_attempted, result>>
    /\ UNCHANGED mvars

\* lines 248-258: the audio mux call
AddAudio ==
    /\ pc = "mux"
    /\ \E ok \in BOOLEAN :
         /\ calls' = Append(calls, StageCall("mux", ok))
         /\ files' = IF ok THEN files \cup {FinalFile} ELSE files
         /\ pc' = StageExit(ok, "cleanup")
         /\ error' = IF ok THEN error ELSE "CalledProcessError"
    /\ UNCHANGED <<inputs, total_duration_sec, duration_per_prompt, i, j,
                   duration_per_image, current_scene_text, video_segments,
                   segment_file_paths, manifest, cleanup_attempted, result>>
    /\ UNCHANGED mvars

\* lines 260-268: the cleanup try block and the return; removed is the
\* number of os.remove calls that succeed before one fails (or all do)
CleanupAndReturn ==
    /\ pc = "cleanup"
    /\ LET targets == CleanupTargets(video_segments) IN
       \E removed \in 0..Len(targets) :
         LET failed == removed < Len(targets)
             attempted == IF failed THEN removed + 1 ELSE removed
         IN
           /\ cleanup_attempted' = SubSeq(targets, 1, attempted)
           /\ files' = files \ {targets[x] : x \in 1..removed}
           /\ calls' = Append(calls, StageCall("cleanup", ~failed))
           /\ pc' = CleanupExit(failed)
           /\ error' = IF pc' = "raised" THEN "OSError" ELSE error
           /\ result' = IF pc' = "returned" THEN <<FinalFile>> ELSE result
    /\ UNCHANGED <<inputs, total_duration_sec, duration_per_prompt, i, j,
                   duration_per_image, current_scene_text, video_segments,
                   segment_file_paths, manifest>>
    /\ UNCHANGED mvars

(***************************************************************************)
(* Inputs and specifications.                                              *)
(***************************************************************************)
ImagesOf(k, n) == [x \in 1..n |-> <<k, x>>]

SceneOrdinals == {0, 1, 2}

\* the maps whose keys are scene ordinals, each with at most MaxPerScene
\* images; a key may carry an empty list
Maps ==
    UNION { {[k \in K |-> ImagesOf(k, f[k])] : f \in [K -> 0..MaxPerScene]}
            : K \in SUBSET SceneOrdinals }

\* (target_duration_minutes, measured audio duration)
DurationInputs ==
    { <<<<>>, Rat(0, 1)>>, <<<<>>, Rat(1, 5)>>, <<<<Rat(0, 1)>>, Rat(0, 1)>>,
      <<<<Rat(1, 1)>>, Rat(0, 1)>>, <<<<Rat(-1, 1)>>, Rat(1, 5)>> }

CaptionText(n) == [x \in 1..n |-> "t"]

CaptionLists == {[x \in 1..m |-> CaptionText(x)] : m \in 0..MaxCaptions}

MapperIdle ==
    /\ image_files = <<>>
    /\ mpc = "idle"
    /\ midx = 1
    /\ prompt_map = <<>>
    /\ sorted_map = <<>>
    /\ skipped = <<>>

JobLocals ==
    /\ total_duration_sec = NoRat
    /\ duration_per_prompt = NoRat
    /\ i = 0
    /\ j = 0
    /\ duration_per_image = NoRat
    /\ current_scene_text = <<>>
    /\ video_segments = <<>>
    /\ segment_file_paths = <<>>
    /\ calls = <<>>
    /\ files = {}
    /\ manifest = [written |-> FALSE, lines |-> <<>>]
    /\ cleanup_attempted = <<>>
    /\ error = "none"
    /\ result = <<>>

\* a call of create_video_from_prompts
Init ==
    /\ MapperIdle
    /\ prompt_image_map \in Maps
    /\ \E d \in DurationInputs :
         /\ target_duration_minutes = d[1]
         /\ audio_duration = d[2]
    /\ scene_texts_for_caption \in CaptionLists
    /\ pc = "start"
    /\ JobLocals

Next ==
    \/ CheckPreconditions
    \/ SkipScene
    \/ BeginScene
    \/ RenderSegment
    \/ WriteManifest
    \/ Concatenate
    \/ AddAudio
    \/ CleanupAndReturn

Spec == Init /\ [][Next]_vars

\* a call of map_images_by_prompt_number
InitMapper ==
    /\ image_files \in SeqsUpTo(Paths, MaxFiles)
    /\ mpc = "loop"
    /\ midx = 1
    /\ prompt_map = <<>>
    /\ sorted_map = <<>>
    /\ skipped = <<>>
    /\ prompt_image_map = <<>>
    /\ target_duration_minutes = <<>>
    /\ audio_duration = NoRat
    /\ scene_texts_for_caption = <<>>
    /\ pc = "idle"
    /\ JobLocals

NextMapper ==
    \/ MapperStep
    \/ MapperReturn

SpecMapper == InitMapper /\ [][NextMapper]_vars

(***************************************************************************)
(* Properties of map_images_by_prompt_number (checked under SpecMapper).   *)
(***************************************************************************)
LeadsWithDigit(path) ==
    LET name == Basename(path) IN Len(name) > 0 /\ name[1] \in Digits

\* the number written by the maximal run of digits that starts the filename
LeadingNumber(path) ==
    LET name == Basename(path)
        m == CHOOSE m \in 1..Len(name) :
                 /\ \A x \in 1..m : name[x] \in Digits
                 /\ m = Len(name) \/ name[m + 1] \notin Digits
    IN IntOf(SubSeq(name, 1, m))

\* key = ceil(n / 2), stated without division
IsCeilOfHalf(key, n) == 2 * key - 2 < n /\ n <= 2 * key

PathsOfScene(key) ==
    LET Belongs(p) == LeadsWithDigit(p) /\ IsCeilOfHalf(key, LeadingNumber(p))
    IN SelectSeq(image_files, Belongs)

\* C5: the returned map holds, under each key, exactly the input paths whose
\* filename starts with a number n with ceil(n/2) = key, in input order and
\* as often as they were passed; paths without a leading digit are absent;
\* every path with a leading digit is under its key; keys ascend; no list
\* is empty.
MapperContract ==
    mpc = "done" =>
      /\ \A x \in 1..Len(sorted_map) :
            /\ sorted_map[x].val = PathsOfScene(sorted_map[x].key)
            /\ sorted_map[x].val # <<>>
            /\ \A y \in 1..(x - 1) : sorted_map[y].key < sorted_map[x].key
      /\ \A x \in 1..Len(image_files) :
            LeadsWithDigit(image_files[x]) =>
              \E y \in 1..Len(sorted_map) :
                IsCeilOfHalf(sorted_map[y].key, LeadingNumber(image_files[x]))
      /\ \A x \in 1..Len(image_files) :
            ~LeadsWithDigit(image_files[x]) =>
              \A y \in 1..Len(sorted_map) :
                image_files[x] \notin Range(sorted_map[y].val)

\* the sort reordered the keys, and one scene holds two paths whose numbers
\* descend in input order
MapperWitness ==
    /\ mpc = "done"
    /\ sorted_map # prompt_map
    /\ \E x \in 1..Len(sorted_map) :
         /\ Len(sorted_map[x].val) = 2
         /\ LeadingNumber(sorted_map[x].val[1]) >
              LeadingNumber(sorted_map[x].val[2])

(***************************************************************************)
(* Properties of create_video_from_prompts (checked under Spec).           *)
(***************************************************************************)
IsRender(c) == c.op = "render"

IsRenderedOk(c) == c.op = "render" /\ c.ok

Renders == SelectSeq(calls, IsRender)

Rendered == SelectSeq(calls, IsRenderedOk)

Called(op) == \E x \in 1..Len(calls) : calls[x].op = op

Succeeded(op) == \E x \in 1..Len(calls) : calls[x].op = op /\ calls[x].ok

Failed(op) == \E x \in 1..Len(calls) : calls[x].op = op /\ ~calls[x].ok

RenderedClips == [x \in 1..Len(Rendered) |->
                    SegmentPath(Rendered[x].i, Rendered[x].j)]

SceneOf(c) == Keys[c.i + 1]

Total == TotalDuration(target_duration_minutes, audio_duration)

NumPromptsWithImages ==
    Cardinality({k \in DOMAIN prompt_image_map : prompt_image_map[k] # <<>>})

\* C1: the effect variant of a segment is its zero-based position among all
\* segments of the job, mod 3.
EffectFollowsGlobalPosition ==
    \A x \in 1..Len(Renders) : Renders[x].effect = (x - 1) % 3

\* C2: a written manifest lists exactly the segments whose render
\* succeeded, each once, ascending by (scene ordinal, index in the scene);
\* a job with a failed render still attempts the manifest write, and a job
\* whose manifest was written still invokes the concatenation.
ManifestListsRendered ==
    /\ manifest.written =>
         /\ manifest.lines =
              [x \in 1..Len(Rendered) |->
                  ManifestLine(AbsPath(SegmentPath(Rendered[x].i,
                                                   Rendered[x].j)))]
         /\ \A x, y \in 1..Len(Rendered) :
              x < y =>
                \/ SceneOf(Rendered[x]) < SceneOf(Rendered[y])
                \/ /\ SceneOf(Rendered[x]) = SceneOf(Rendered[y])
                   /\ Rendered[x].j < Rendered[y].j
    /\ Called("concat") => manifest.written
    /\ (Failed("render") /\ pc \in {"raised", "returned"}) =>
         Called("manifest")
    /\ (manifest.written /\ pc \in {"raised", "returned"}) =>
         Called("concat")

\* six renders, one of them failed: five lines, and concatenation invoked
ManifestWitness ==
    /\ Len(Renders) = 6
    /\ Len(Rendered) = 5
    /\ manifest.written
    /\ Len(manifest.lines) = 5
    /\ Called("concat")

\* C3: with a zero total duration, or with no scene that has images, the
\* job raises before any render, manifest write, concatenation or mux.
PreconditionsAbortFirst ==
    (pc # "start" /\ (RatIsZero(Total) \/ NumPromptsWithImages = 0)) =>
      /\ pc = "raised"
      /\ calls = <<>>
      /\ ~manifest.written

\* d equals max(1/2, Total / scenes / k), stated without division
IsAllocation(d, scenes, k) ==
    /\ d.d > 0
    /\ 2 * d.n >= d.d
    /\ (2 * Total.n > Total.d * scenes * k) =>
         d.n * Total.d * scenes * k = Total.n * d.d
    /\ (2 * Total.n <= Total.d * scenes * k) => 2 * d.n = d.d

\* C4: every image of a scene with k images gets
\* max(0.5, total / number of keys of the map / k), so at least 0.5 s;
\* a total of 60 over three one-image scenes gives 20 each.
AllocatedDuration ==
    /\ \A x \in 1..Len(Renders) :
         /\ IsAllocation(Renders[x].duration,
                         Cardinality(DOMAIN prompt_image_map),
                         Len(prompt_image_map[SceneOf(Renders[x])]))
         /\ ( /\ RatEq(Total, Rat(60, 1))
              /\ Cardinality(DOMAIN prompt_image_map) = 3
              /\ Len(prompt_image_map[SceneOf(Renders[x])]) = 1 ) =>
              Renders[x].duration.n = 20 * Renders[x].duration.d
    /\ pc = "render" =>
         IsAllocation(duration_per_image,
                      Cardinality(DOMAIN prompt_image_map),
                      Len(prompt_image_map[Keys[i + 1]]))

\* a total of 60 s over three one-image scenes, all three rendered with 20 s
AllocationWitness ==
    /\ RatEq(Total, Rat(60, 1))
    /\ Cardinality(DOMAIN prompt_image_map) = 3
    /\ Len(Renders) = 3
    /\ \A x \in 1..Len(Renders) :
         /\ Len(prompt_image_map[SceneOf(Renders[x])]) = 1
         /\ RatEq(Renders[x].duration, Rat(20, 1))

CaptionOfOrdinal(s) ==
    IF 1 <= s /\ s <= Len(scene_texts_for_caption)
    THEN scene_texts_for_caption[s]
    ELSE <<>>

\* C6: the caption source text of scene s is captions[s-1] (zero-based) when
\* 1 <= s <= len(captions) and empty otherwise, and choosing it never
\* raises.
CaptionByOrdinal ==
    /\ error # "IndexError"
    /\ pc = "render" => current_scene_text = CaptionOfOrdinal(Keys[i + 1])
    /\ \A x \in 1..Len(Renders) :
         Renders[x].text = CaptionOfOrdinal(SceneOf(Renders[x]))

ArtifactsKept ==
    /\ ManifestFile \in files
    /\ \A x \in 1..Len(RenderedClips) : RenderedClips[x] \in files

\* C7: a failed concatenation or a failed mux raises; after a failed
\* concatenation the mux is never invoked; in both cases nothing is
\* returned, no deletion is attempted, and the manifest, the rendered clips
\* and (after a mux failure) the intermediate video stay on disk.
StageFailureAborts ==
    /\ Failed("concat") =>
         /\ pc = "raised"
         /\ ~Called("mux")
         /\ result = <<>>
         /\ cleanup_attempted = <<>> /\ ~Called("cleanup")
         /\ ArtifactsKept
    /\ Failed("mux") =>
         /\ pc = "raised"
         /\ result = <<>>
         /\ cleanup_attempted = <<>> /\ ~Called("cleanup")
         /\ ArtifactsKept
         /\ IntermediateFile \in files
    /\ Called("mux") => Succeeded("concat")

\* the mux failed after two clips were rendered
StageFailureWitness ==
    /\ Failed("mux")
    /\ Len(Rendered) >= 2
    /\ pc = "raised"

\* C8: after a successful mux the job raises nothing and returns the final
\* output path, whatever deletions fail; the final output is never handed
\* to a deletion and is on disk at the return.
CleanupNeverRaises ==
    /\ Succeeded("mux") =>
         /\ pc \in {"cleanup", "returned"}
         /\ error = "none"
    /\ Called("cleanup") =>
         /\ pc = "returned"
         /\ result = <<FinalFile>>
         /\ FinalFile \in files
         /\ FinalFile \notin Range(cleanup_attempted)

\* the job returned although the deletion of a segment clip failed
CleanupFailureWitness ==
    /\ pc = "returned"
    /\ Failed("cleanup")
    /\ Len(cleanup_attempted) >= 3
    /\ result = <<FinalFile>>

\* the (scene index, image index) pairs of the map, scene by scene
RECURSIVE PairsFrom(_)
PairsFrom(a) ==
    IF a >= Len(Keys) THEN <<>>
    ELSE [b \in 1..Len(prompt_image_map[Keys[a + 1]]) |->
             [op |-> "render", i |-> a, j |-> b - 1]]
         \o PairsFrom(a + 1)

Pipeline ==
    PairsFrom(0) \o [x \in 1..4 |->
                        [op |-> <<"manifest", "concat", "mux", "cleanup">>[x],
                         i |-> -1, j |-> -1]]

Invocations ==
    [x \in 1..Len(calls) |->
        [op |-> calls[x].op, i |-> calls[x].i, j |-> calls[x].j]]

PassedPreconditions ==
    pc # "start" /\ error \notin {"AudioDurationZero", "NoPrompts"}

InPipelineOrder ==
    /\ Len(Invocations) <= Len(Pipeline)
    /\ Invocations = SubSeq(Pipeline, 1, Len(Invocations))
    /\ Called("mux") => Succeeded("concat")
    /\ Called("cleanup") => Succeeded("mux")

\* C9: once the preconditions passed, the invocations are the renders of
\* all (scene, image) pairs in order, then manifest write, concatenation,
\* mux and cleanup, none repeated, mux only after a successful
\* concatenation, cleanup only after a successful mux; and every render has
\* been attempted when the job ends.
OrderedSingleAttempts ==
    PassedPreconditions =>
      /\ InPipelineOrder
      /\ pc \in {"raised", "returned"} => Len(Renders) = Len(PairsFrom(0))

\* the same, for the jobs in which the caption lookup did not raise
OrderedSingleAttemptsUnlessIndexError ==
    (PassedPreconditions /\ error # "IndexError") =>
      /\ InPipelineOrder
      /\ pc \in {"raised", "returned"} => Len(Renders) = Len(PairsFrom(0))

\* C10: cleanup attempts manifest, intermediate video, then the rendered
\* clips in render order, and stops at the first failure: what precedes the
\* failure is gone, the failed one and all later ones are still on disk;
\* without a failure none of them remains.
CleanupStopsAtFirstFailure ==
    Called("cleanup") =>
      LET targets == <<ManifestFile, IntermediateFile>> \o RenderedClips
          n == Len(cleanup_attempted)
      IN
        /\ n <= Len(targets)
        /\ cleanup_attempted = SubSeq(targets, 1, n)
        /\ Succeeded("cleanup") =>
             /\ n = Len(targets)
             /\ \A x \in 1..Len(targets) : targets[x] \notin files
        /\ Failed("cleanup") =>
             /\ n >= 1
             /\ \A x \in 1..(n - 1) : targets[x] \notin files
             /\ \A x \in n..Len(targets) : targets[x] \in files

\* the deletion of the manifest failed: the intermediate video and two
\* rendered clips are left on disk
CleanupStopWitness ==
    /\ pc = "returned"
    /\ cleanup_attempted = <<ManifestFile>>
    /\ Len(RenderedClips) >= 2
    /\ IntermediateFile \in files
    /\ \A x \in 1..Len(RenderedClips) : RenderedClips[x] \in files

=============================================================================
